---- MODULE Spec2Model ----
(***************************************************************************)
(* A model of the map-object library: the path tokenizers, readValue,     *)
(* writeValue, resolveMap, resolveMapArray and mapObject.                  *)
(*                                                                         *)
(* JavaScript strings are sequences of one-character strings, so that the *)
(* regular expressions and the splits of the code are computed and not    *)
(* assumed.  JavaScript objects and arrays live in a heap of cells that   *)
(* values refer to by address, so that aliasing and in-place mutation are *)
(* what they are in the program.                                          *)
(***************************************************************************)
EXTENDS Integers, Sequences, FiniteSets, TLC

(***************************************************************************)
(* Characters and strings                                                  *)
(***************************************************************************)

\* the digits \d, in order of value
Digits == <<"0", "1", "2", "3", "4", "5", "6", "7", "8", "9">>

DigitSet == {Digits[i] : i \in 1..Len(Digits)}

\* the characters of the class [$\w\-] that the model's inputs use
KeyChars == {"a", "b", "c", "k", "t", "x", "y", "z", "$", "_", "-"} \cup DigitSet

IsKeyChar(c) == c \in KeyChars

DigitVal(c) == (CHOOSE i \in 1..Len(Digits) : Digits[i] = c) - 1

\* /^\d+$/ on a string
IsDigits(s) == Len(s) > 0 /\ \A i \in 1..Len(s) : s[i] \in DigitSet

RECURSIVE DecimalValue(_)
\* the number a string of digits denotes
DecimalValue(s) ==
  IF Len(s) = 0 THEN 0
  ELSE 10 * DecimalValue(SubSeq(s, 1, Len(s) - 1)) + DigitVal(s[Len(s)])

\* [$\w\-]+(\.[$\w\-]+)* on a whole string
IsKeyPath(s) ==
  /\ Len(s) > 0
  /\ \A i \in 1..Len(s) : IsKeyChar(s[i]) \/ s[i] = "."
  /\ s[1] # "."
  /\ s[Len(s)] # "."
  /\ \A i \in 1..(Len(s) - 1) : ~(s[i] = "." /\ s[i + 1] = ".")

\* const isMapper = (val) => /(^key(\.key)*(:key(\.key)*)?\.$)|(^:key(\.key)*\.?$)/.test(val)
isMapper(s) ==
  \/ /\ Len(s) > 1
     /\ s[Len(s)] = "."
     /\ LET body == SubSeq(s, 1, Len(s) - 1)
        IN \/ IsKeyPath(body)
           \/ \E j \in 2..(Len(body) - 1) :
                /\ body[j] = ":"
                /\ IsKeyPath(SubSeq(body, 1, j - 1))
                /\ IsKeyPath(SubSeq(body, j + 1, Len(body)))
  \/ /\ Len(s) > 1
     /\ s[1] = ":"
     /\ \/ IsKeyPath(SubSeq(s, 2, Len(s)))
        \/ s[Len(s)] = "." /\ IsKeyPath(SubSeq(s, 2, Len(s) - 1))

\* const isArrayKey = (val) => /^\[[^\[\]]*\]$/.test(val)
isArrayKey(s) ==
  /\ Len(s) >= 2
  /\ s[1] = "["
  /\ s[Len(s)] = "]"
  /\ \A i \in 2..(Len(s) - 1) : s[i] \notin {"[", "]"}

\* const isIndexKey = (val) => /^-?\d+$/.test(val)
isIndexKey(s) ==
  \/ IsDigits(s)
  \/ Len(s) > 1 /\ s[1] = "-" /\ IsDigits(SubSeq(s, 2, Len(s)))

\* /^-\d+$/.test(cleanKey)
IsNegativeIndex(s) == Len(s) > 1 /\ s[1] = "-" /\ IsDigits(SubSeq(s, 2, Len(s)))

\* ToIntegerOrInfinity of an index key: "-1" is -1, "01" is 1, "-0" is 0
IndexValue(s) ==
  IF s[1] = "-" THEN 0 - DecimalValue(SubSeq(s, 2, Len(s))) ELSE DecimalValue(s)

\* whether an index key is a canonical array index ("0", "1", "12"; not "01", "-1"):
\* only then does arr[key] = v set an element and not a named property
IsCanonicalIndex(s) == IsDigits(s) /\ (Len(s) = 1 \/ s[1] # "0")

\* key.replace(/(^\[)|(\]$)/g, "")
StripBrackets(s) ==
  LET a == IF Len(s) > 0 /\ s[1] = "[" THEN SubSeq(s, 2, Len(s)) ELSE s
  IN IF Len(a) > 0 /\ a[Len(a)] = "]" THEN SubSeq(a, 1, Len(a) - 1) ELSE a

RECURSIVE RunEnd(_, _)
\* the first position from i on that holds no key character
RunEnd(p, i) == IF i > Len(p) \/ ~IsKeyChar(p[i]) THEN i ELSE RunEnd(p, i + 1)

RECURSIVE ContentEnd(_, _)
\* the first position from i on that holds neither a key character nor a dot
ContentEnd(p, i) ==
  IF i > Len(p) \/ ~(IsKeyChar(p[i]) \/ p[i] = ".") THEN i ELSE ContentEnd(p, i + 1)

\* (?<=\.|^) at position i
LookBehind(p, i) == i = 1 \/ p[i - 1] = "."

\* (?=\.|$) at position j
LookAhead(p, j) == j > Len(p) \/ p[j] = "."

\* the end (exclusive) of the match of readValue's pattern that starts at i, 0 if none:
\* /\*|(?<=\.|^)((\[key(\.key)*\])|key)(?=\.|$)/
ReadMatchEnd(p, i) ==
  IF p[i] = "*" THEN i + 1
  ELSE IF ~LookBehind(p, i) THEN 0
  ELSE IF p[i] = "["
    THEN LET j == ContentEnd(p, i + 1)
         IN IF /\ j <= Len(p)
               /\ p[j] = "]"
               /\ IsKeyPath(SubSeq(p, i + 1, j - 1))
               /\ LookAhead(p, j + 1)
            THEN j + 1 ELSE 0
  ELSE LET j == RunEnd(p, i)
       IN IF j > i /\ LookAhead(p, j) THEN j ELSE 0

\* the end (exclusive) of the match of writeValue's pattern that starts at i, 0 if none:
\* /(?<=\.|^)(\[(key(\.key)*)*\])|key(?=\.|$)/
WriteMatchEnd(p, i) ==
  IF p[i] = "["
    THEN LET j == ContentEnd(p, i + 1)
         IN IF /\ LookBehind(p, i)
               /\ j <= Len(p)
               /\ p[j] = "]"
               /\ (j = i + 1 \/ IsKeyPath(SubSeq(p, i + 1, j - 1)))
            THEN j + 1 ELSE 0
  ELSE LET j == RunEnd(p, i)
       IN IF j > i /\ LookAhead(p, j) THEN j ELSE 0

RECURSIVE ReadScan(_, _)
ReadScan(p, i) ==
  IF i > Len(p) THEN <<>>
  ELSE LET e == ReadMatchEnd(p, i)
       IN IF e = 0 THEN ReadScan(p, i + 1)
          ELSE <<SubSeq(p, i, e - 1)>> \o ReadScan(p, e)

RECURSIVE WriteScan(_, _)
WriteScan(p, i) ==
  IF i > Len(p) THEN <<>>
  ELSE LET e == WriteMatchEnd(p, i)
       IN IF e = 0 THEN WriteScan(p, i + 1)
          ELSE <<SubSeq(p, i, e - 1)>> \o WriteScan(p, e)

\* path.match(readPattern): the segments, <<>> for null
ReadSegments(p) == ReadScan(p, 1)

\* path.match(writePattern): the segments, <<>> for null
WriteSegments(p) == WriteScan(p, 1)

RECURSIVE SplitColon(_, _, _)
\* map.split(":"), scanning from i with the current piece starting at s
SplitColon(m, s, i) ==
  IF i > Len(m) THEN <<SubSeq(m, s, Len(m))>>
  ELSE IF m[i] = ":" THEN <<SubSeq(m, s, i - 1)>> \o SplitColon(m, i + 1, i + 1)
  ELSE SplitColon(m, s, i + 1)

RECURSIVE SplitMulti(_, _, _)
\* map.split(/::|,/)
SplitMulti(m, s, i) ==
  IF i > Len(m) THEN <<SubSeq(m, s, Len(m))>>
  ELSE IF m[i] = ":" /\ i < Len(m) /\ m[i + 1] = ":"
    THEN <<SubSeq(m, s, i - 1)>> \o SplitMulti(m, i + 2, i + 2)
  ELSE IF m[i] = "," THEN <<SubSeq(m, s, i - 1)>> \o SplitMulti(m, i + 1, i + 1)
  ELSE SplitMulti(m, s, i + 1)

RECURSIVE SplitMapper(_, _, _)
\* firstElement.split(/:|\.$/)
SplitMapper(m, s, i) ==
  IF i > Len(m) THEN <<SubSeq(m, s, Len(m))>>
  ELSE IF m[i] = ":" \/ (m[i] = "." /\ i = Len(m))
    THEN <<SubSeq(m, s, i - 1)>> \o SplitMapper(m, i + 1, i + 1)
  ELSE SplitMapper(m, s, i + 1)

\* /::|,/.test(mapItem)
IsMultiField(m) ==
  \E i \in 1..Len(m) : m[i] = "," \/ (m[i] = ":" /\ i < Len(m) /\ m[i + 1] = ":")

(***************************************************************************)
(* Values, and the heap of objects and arrays                              *)
(***************************************************************************)

\* A value is a primitive or the address of a heap cell: `v` is a number or an
\* address, `s` the text of a string.
Undefined == [t |-> "undefined", v |-> 0, s |-> <<>>]

Null == [t |-> "null", v |-> 0, s |-> <<>>]

\* the empty slot of a sparse array
Hole == [t |-> "hole", v |-> 0, s |-> <<>>]

Num(n) == [t |-> "number", v |-> n, s |-> <<>>]

Str(s) == [t |-> "string", v |-> 0, s |-> s]

True == [t |-> "boolean", v |-> 1, s |-> <<>>]

Ref(a) == [t |-> "ref", v |-> a, s |-> <<>>]

NoProps == [x \in {} |-> Undefined]

\* a plain object with own properties f
ObjCell(f) == [k |-> "object", f |-> f, e |-> <<>>]

\* an array with elements e (and named properties f, which arr["01"] = v creates)
ArrCell(e, f) == [k |-> "array", f |-> f, e |-> e]

\* Array.isArray(val)
IsArray(h, val) == val.t = "ref" /\ h[val.v].k = "array"

\* const isObject = (val) => typeof val === "object" && !Array.isArray(val) && val !== null
isObject(h, val) == val.t = "ref" /\ h[val.v].k = "object"

\* const isUndefined = (val) => val === undefined
isUndefined(val) == val = Undefined

\* const isNull = (val) => val === null
isNull(val) == val = Null

\* a new object or array: a fresh address
Alloc(h, cell) == [h |-> Append(h, cell), v |-> Ref(Len(h) + 1)]

Max(a, b) == IF a >= b THEN a ELSE b

Min(a, b) == IF a <= b THEN a ELSE b

\* Array.prototype.at on the elements e with the relative index k
\* an index counted from the start only
AtFromStart(e, k) ==
  IF k < 0 \/ k >= Len(e) THEN Undefined
  ELSE IF e[k + 1] = Hole THEN Undefined ELSE e[k + 1]

\* Array.prototype.at on the elements e
At(e, k) ==
  LET idx == IF k >= 0 THEN k ELSE Len(e) + k
  IN IF idx < 0 \/ idx >= Len(e) THEN Undefined
     ELSE IF e[idx + 1] = Hole THEN Undefined ELSE e[idx + 1]

\* String.prototype.at on the characters s
StringAt(s, k) ==
  LET idx == IF k >= 0 THEN k ELSE Len(s) + k
  IN IF idx < 0 \/ idx >= Len(s) THEN Undefined ELSE Str(<<s[idx + 1]>>)

\* obj[key] on a cell
GetProp(cell, key) == IF key \in DOMAIN cell.f THEN cell.f[key] ELSE Undefined

\* obj[key] = val
SetProp(h, a, key, val) ==
  [h EXCEPT ![a].f = [x \in (DOMAIN @) \cup {key} |-> IF x = key THEN val ELSE @[x]]]

\* arr[n] = val for a canonical index n: past the end the array grows, with holes
SetIndex(h, a, n, val) ==
  LET e == h[a].e
  IN [h EXCEPT ![a].e =
        IF n < Len(e) THEN [e EXCEPT ![n + 1] = val]
        ELSE e \o [i \in 1..(n - Len(e)) |-> Hole] \o <<val>>]

\* arr.splice(rel, 1, item)
Splice(e, rel, item) ==
  LET len == Len(e)
      start == IF rel < 0 THEN Max(len + rel, 0) ELSE Min(rel, len)
      del == Min(1, len - start)
  IN SubSeq(e, 1, start) \o <<item>> \o SubSeq(e, start + del + 1, len)

RECURSIVE SetToSeq(_)
\* the elements of a finite set in some fixed order
SetToSeq(S) ==
  IF S = {} THEN <<>>
  ELSE LET x == CHOOSE y \in S : TRUE IN <<x>> \o SetToSeq(S \ {x})

\* results of the operations: the heap after, the value returned, and the error
\* thrown ("none", "Error" for the code's own throw new Error, "TypeError",
\* "SyntaxError", "RangeError")
Ret(h, val) == [h |-> h, v |-> val, err |-> "none"]

Throw(h, e) == [h |-> h, v |-> Undefined, err |-> e]

(***************************************************************************)
(* readValue                                                               *)
(***************************************************************************)

\* Every result of a call is handed on as the argument of the definition that
\* continues the code, so that each call is written once.

RECURSIVE ReadValue(_, _, _)
RECURSIVE ReadFold(_, _, _, _)
RECURSIVE ReadMap(_, _, _, _)

\* (item) => (isObject(item) ? readValue(item, cleanKey) : undefined); map keeps a hole
ReadMapItem(h, item, cleanKey) ==
  IF item = Hole THEN Ret(h, Hole)
  ELSE IF isObject(h, item) THEN ReadValue(h, item, cleanKey)
  ELSE Ret(h, Undefined)

\* the mapped elements collected back to front
ReadMapReversed(one, rest) == [h |-> rest.h, e |-> rest.e \o <<one.v>>, err |-> rest.err]

ReadMapCons(one, rest) == [h |-> rest.h, e |-> <<one.v>> \o rest.e, err |-> rest.err]

ReadMapRest(one, e, i, cleanKey) ==
  IF one.err # "none" THEN [h |-> one.h, e |-> <<>>, err |-> one.err]
  ELSE ReadMapCons(one, ReadMap(one.h, e, i + 1, cleanKey))

\* currentObj.map(...), from element i on: the elements of the new array
ReadMap(h, e, i, cleanKey) ==
  IF i > Len(e) THEN [h |-> h, e |-> <<>>, err |-> "none"]
  ELSE ReadMapRest(ReadMapItem(h, e[i], cleanKey), e, i, cleanKey)

\* the array that map returns is a new one
ReadMapResult(m) ==
  IF m.err # "none" THEN Throw(m.h, m.err)
  ELSE Ret(Append(m.h, ArrCell(m.e, NoProps)), Ref(Len(m.h) + 1))

\* lines 130-146: an array operation on the cleaned key
ReadArrayKey(h, currentObj, cleanKey) ==
  IF ~IsArray(h, currentObj) \/ cleanKey = <<>> THEN Ret(h, Undefined)
  ELSE IF isIndexKey(cleanKey)
    THEN Ret(h, At(h[currentObj.v].e, IndexValue(cleanKey)))
  ELSE ReadMapResult(ReadMap(h, h[currentObj.v].e, 1, cleanKey))

\* the property read without asking whether there is an object
ReadStepUnguarded(h, currentObj, key) ==
  IF key = <<"*">> THEN Ret(h, currentObj)
  ELSE IF isArrayKey(key) \/ isIndexKey(key)
    THEN ReadArrayKey(h, currentObj, StripBrackets(key))
  ELSE IF currentObj.t \in {"undefined", "null"} THEN Throw(h, "TypeError")
  ELSE IF isObject(h, currentObj) THEN Ret(h, GetProp(h[currentObj.v], key))
  ELSE Ret(h, Undefined)

\* one step of segments.reduce in readValue
ReadStep(h, currentObj, key) ==
  IF key = <<>> THEN Throw(h, "Error")
  ELSE IF key = <<"*">> THEN Ret(h, currentObj)
  ELSE IF isArrayKey(key) \/ isIndexKey(key)
    THEN ReadArrayKey(h, currentObj, StripBrackets(key))
  ELSE IF isObject(h, currentObj) THEN Ret(h, GetProp(h[currentObj.v], key))
  ELSE Ret(h, Undefined)

ReadFoldNext(r, segments, i) ==
  IF r.err # "none" THEN r ELSE ReadFold(r.h, r.v, segments, i + 1)

ReadFold(h, currentObj, segments, i) ==
  IF i > Len(segments) THEN Ret(h, currentObj)
  ELSE ReadFoldNext(ReadStep(h, currentObj, segments[i]), segments, i)

ReadSegmentsOf(h, obj, segments) ==
  IF segments = <<>> THEN Ret(h, Undefined) ELSE ReadFold(h, obj, segments, 1)

\* function readValue(obj, path), for a string path
ReadValue(h, obj, path) ==
  IF path = <<>> THEN Throw(h, "Error")
  ELSE ReadSegmentsOf(h, obj, ReadSegments(path))

(***************************************************************************)
(* writeValue                                                              *)
(***************************************************************************)

\* how many writeValue calls may be nested before the call stack is exhausted: a
\* broadcast over an array that holds itself recurses without end
MaxNest == 6

RECURSIVE WriteNested(_, _, _, _, _)
RECURSIVE WriteFold(_, _, _, _, _, _)
RECURSIVE WriteEach(_, _, _, _, _, _, _, _)

\* whether the segment after position i asks for an array: isArrayKey(nextKey) ||
\* isIndexKey(nextKey), false for the undefined nextKey of the last segment
NextIsArrayLike(segments, i) ==
  i < Len(segments) /\ (isArrayKey(segments[i + 1]) \/ isIndexKey(segments[i + 1]))

\* value ?? undefined
NullishToUndefined(value) == IF value = Null THEN Undefined ELSE value

\* const getNextValue = (existingValue) => ...: the value to set at segment i
getNextValue(h, segments, i, value, existingValue) ==
  IF i = Len(segments) THEN Ret(h, NullishToUndefined(value))
  ELSE IF NextIsArrayLike(segments, i)
    THEN IF IsArray(h, existingValue) THEN Ret(h, existingValue)
         ELSE Ret(Append(h, ArrCell(<<>>, NoProps)), Ref(Len(h) + 1))
  ELSE IF isObject(h, existingValue) THEN Ret(h, existingValue)
       ELSE Ret(Append(h, ObjCell(NoProps)), Ref(Len(h) + 1))

\* const shouldUpdate = !(isArrayKey(nextKey) || isIndexKey(nextKey)
\*   ? Array.isArray(existingValue) : isObject(existingValue))
shouldUpdate(h, segments, i, existingValue) ==
  ~(IF NextIsArrayLike(segments, i) THEN IsArray(h, existingValue)
    ELSE isObject(h, existingValue))

WriteEachNext(w, a, j, path, segments, i, value, d) ==
  IF w.err # "none" THEN w
  ELSE WriteEach(w.h, a, j + 1, path, segments, i, value, d)

\* writeValue(item, path, getNextValue())
WriteItem(nv, item, path, d) == WriteNested(nv.h, item, path, nv.v, d + 1)

\* currentObj.forEach((item) => { writeValue(item, path, getNextValue()); }), from
\* element j of the array at address a on (forEach skips holes and reads the array live)
WriteEach(h, a, j, path, segments, i, value, d) ==
  IF j > Len(h[a].e) THEN Ret(h, Ref(a))
  ELSE IF h[a].e[j] = Hole THEN WriteEach(h, a, j + 1, path, segments, i, value, d)
  ELSE WriteEachNext(
         WriteItem(getNextValue(h, segments, i, value, Undefined), h[a].e[j], path, d),
         a, j, path, segments, i, value, d)

\* the new element put in front
PushFront(nv, a) == Ret([nv.h EXCEPT ![a].e = <<nv.v>> \o @], nv.v)

\* lines 223-226: currentObj.push(getNextValue()); return currentObj.at(-1)
PushNext(nv, a) == Ret([nv.h EXCEPT ![a].e = Append(@, nv.v)], nv.v)

\* lines 236-241: the new value set at an index of the array at address a
SetAtIndex(nv, a, cleanKey) ==
  IF IsNegativeIndex(cleanKey)
    THEN [nv.h EXCEPT ![a].e = Splice(@, IndexValue(cleanKey), nv.v)]
  ELSE IF IsCanonicalIndex(cleanKey) THEN SetIndex(nv.h, a, IndexValue(cleanKey), nv.v)
  ELSE SetProp(nv.h, a, cleanKey, nv.v)

\* return currentObj.at(cleanKey)
AtIndex(h, a, cleanKey) == Ret(h, At(h[a].e, IndexValue(cleanKey)))

\* lines 229-245 on an array: a numeric index updates one element
WriteIndex(h, a, cleanKey, segments, i, value, existingValue) ==
  IF shouldUpdate(h, segments, i, existingValue)
    THEN AtIndex(SetAtIndex(getNextValue(h, segments, i, value, existingValue),
                            a, cleanKey), a, cleanKey)
  ELSE Ret(h, existingValue)

\* lines 229-245 on a string, which has at() and no splice(): the assignment of
\* sloppy-mode code to a property of a primitive is dropped
WriteIndexOfString(h, currentObj, cleanKey, segments, i, value) ==
  IF IsNegativeIndex(cleanKey) THEN Throw(h, "TypeError")
  ELSE Ret(getNextValue(h, segments, i, value, Undefined).h,
           StringAt(currentObj.s, IndexValue(cleanKey)))

\* lines 219-253: the array operations of a step
WriteArrayKey(h, currentObj, cleanKey, segments, i, value, d) ==
  IF cleanKey = <<>>
    THEN IF ~IsArray(h, currentObj) THEN Throw(h, "TypeError")
         ELSE PushNext(getNextValue(h, segments, i, value, Undefined), currentObj.v)
  ELSE IF isIndexKey(cleanKey)
    THEN IF IsArray(h, currentObj)
           THEN WriteIndex(h, currentObj.v, cleanKey, segments, i, value,
                           At(h[currentObj.v].e, IndexValue(cleanKey)))
         ELSE IF currentObj.t = "string"
           THEN WriteIndexOfString(h, currentObj, cleanKey, segments, i, value)
         ELSE Throw(h, "TypeError")
  ELSE IF ~IsArray(h, currentObj) THEN Throw(h, "TypeError")
  ELSE WriteEach(h, currentObj.v, 1, cleanKey, segments, i, value, d)

\* currentObj[key] = getNextValue(existingValue); return currentObj[key]
SetKeyNext(nv, a, key) == Ret(SetProp(nv.h, a, key, nv.v), nv.v)

\* lines 266-277: a key of the plain object at address a
WriteKey(h, a, key, segments, i, value, existingValue) ==
  IF shouldUpdate(h, segments, i, existingValue)
    THEN SetKeyNext(getNextValue(h, segments, i, value, existingValue), a, key)
  ELSE IF i = Len(segments) THEN Ret(SetProp(h, a, key, value), value)
  ELSE Ret(h, existingValue)

\* lines 255-277: the object property operations of a step
WritePlainKey(h, currentObj, key, segments, i, value, d) ==
  IF currentObj.t \in {"undefined", "null"} THEN Throw(h, "TypeError")
  ELSE IF IsArray(h, currentObj)
    THEN WriteEach(h, currentObj.v, 1, key, segments, i, value, d)
  ELSE IF isObject(h, currentObj)
    THEN WriteKey(h, currentObj.v, key, segments, i, value,
                  GetProp(h[currentObj.v], key))
  \* a number or a string: currentObj[key] is undefined and the assignment is
  \* dropped (sloppy mode)
  ELSE Ret(getNextValue(h, segments, i, value, Undefined).h, Undefined)

\* one step of segments.reduce in writeValue: the heap after and the next accumulator
WriteStep(h, currentObj, segments, i, value, d) ==
  IF isArrayKey(segments[i]) \/ isIndexKey(segments[i])
    THEN WriteArrayKey(h, currentObj, StripBrackets(segments[i]), segments, i, value, d)
  ELSE WritePlainKey(h, currentObj, segments[i], segments, i, value, d)

WriteFoldNext(r, segments, i, value, d) ==
  IF r.err # "none" THEN r ELSE WriteFold(r.h, r.v, segments, i + 1, value, d)

WriteFold(h, currentObj, segments, i, value, d) ==
  IF i > Len(segments) THEN Ret(h, currentObj)
  ELSE WriteFoldNext(WriteStep(h, currentObj, segments, i, value, d),
                     segments, i, value, d)

\* return obj
WriteReturn(r, obj) == IF r.err # "none" THEN r ELSE Ret(r.h, obj)

\* lines 189-280
WriteSegmentsOf(h, obj, segments, value, d) ==
  IF segments = <<>> THEN Ret(h, obj)
  ELSE WriteReturn(WriteFold(h, obj, segments, 1, value, d), obj)

\* the write without the check of lines 184-187
WriteAlways(skip, obj, path, value, d) ==
  IF skip.err # "none" THEN skip
  ELSE WriteSegmentsOf(skip.h, obj, WriteSegments(path), value, d)

\* lines 184-187: value === undefined && readValue(obj, path) === undefined
WriteUnlessSkipped(skip, obj, path, value, d) ==
  IF skip.err # "none" THEN skip
  ELSE IF value = Undefined /\ skip.v = Undefined THEN Ret(skip.h, obj)
  ELSE WriteSegmentsOf(skip.h, obj, WriteSegments(path), value, d)

\* function writeValue(obj, path, value), for a string path, called at nesting
\* depth d: returns obj
WriteNested(h, obj, path, value, d) ==
  IF d > MaxNest THEN Throw(h, "RangeError")
  ELSE WriteUnlessSkipped(
         IF value = Undefined THEN ReadValue(h, obj, path) ELSE Ret(h, Null),
         obj, path, value, d)

\* writeValue(obj, path, value) called from outside
WriteValue(h, obj, path, value) == WriteNested(h, obj, path, value, 0)

(***************************************************************************)
(* Values as trees: what a caller writes down and what deep equality sees  *)
(***************************************************************************)

\* A tree is a value with its contents in place of an address: `f` holds the
\* properties of an object (or the named properties of an array), `e` the
\* elements of an array.
TPrim(val) == [t |-> val.t, v |-> val.v, s |-> val.s, f |-> NoProps, e |-> <<>>]

TObj(f) == [t |-> "object", v |-> 0, s |-> <<>>, f |-> f, e |-> <<>>]

TArr(e) == [t |-> "array", v |-> 0, s |-> <<>>, f |-> NoProps, e |-> e]

\* where the snapshot of a cyclic or too deep value is cut
TCut == [t |-> "cut", v |-> 0, s |-> <<>>, f |-> NoProps, e |-> <<>>]

\* how deep a snapshot looks
MaxDepth == 6

RECURSIVE Snap(_, _, _)
\* the tree of a value in heap h, to depth d: two values are deep-equal when
\* their snapshots are equal
Snap(h, val, d) ==
  IF val.t # "ref" THEN TPrim(val)
  ELSE IF d = 0 THEN TCut
  ELSE LET c == h[val.v]
       IN [t |-> c.k, v |-> 0, s |-> <<>>,
           f |-> [x \in DOMAIN c.f |-> Snap(h, c.f[x], d - 1)],
           e |-> [j \in 1..Len(c.e) |-> Snap(h, c.e[j], d - 1)]]

Tree(h, val) == Snap(h, val, MaxDepth)

RECURSIVE Build(_, _)
RECURSIVE BuildProps(_, _, _, _)
RECURSIVE BuildElems(_, _, _)

BuildPropsCons(one, rest, key) ==
  [h |-> rest.h,
   f |-> [x \in (DOMAIN rest.f) \cup {key} |-> IF x = key THEN one.v ELSE rest.f[x]]]

BuildPropsRest(one, f, keys, i) ==
  BuildPropsCons(one, BuildProps(one.h, f, keys, i + 1), keys[i])

\* the properties f of a tree built in the heap, key by key
BuildProps(h, f, keys, i) ==
  IF i > Len(keys) THEN [h |-> h, f |-> NoProps]
  ELSE BuildPropsRest(Build(h, f[keys[i]]), f, keys, i)

BuildElemsCons(one, rest) == [h |-> rest.h, e |-> <<one.v>> \o rest.e]

BuildElemsRest(one, e, i) == BuildElemsCons(one, BuildElems(one.h, e, i + 1))

\* the elements e of a tree built in the heap
BuildElems(h, e, i) ==
  IF i > Len(e) THEN [h |-> h, e |-> <<>>]
  ELSE BuildElemsRest(Build(h, e[i]), e, i)

BuildObject(ps) == [h |-> Append(ps.h, ObjCell(ps.f)), v |-> Ref(Len(ps.h) + 1)]

BuildArray(es) == [h |-> Append(es.h, ArrCell(es.e, NoProps)), v |-> Ref(Len(es.h) + 1)]

\* the value a caller holds for a tree: its objects and arrays are allocated
Build(h, tree) ==
  IF tree.t = "object" THEN BuildObject(BuildProps(h, tree.f, SetToSeq(DOMAIN tree.f), 1))
  ELSE IF tree.t = "array" THEN BuildArray(BuildElems(h, tree.e, 1))
  ELSE [h |-> h, v |-> [t |-> tree.t, v |-> tree.v, s |-> tree.s]]

RECURSIVE JsonTree(_, _)
\* JSON.parse(JSON.stringify(val)) as a tree: a property holding undefined is
\* dropped, undefined or a hole in an array becomes null, an array's named
\* properties are dropped
JsonTree(h, val) ==
  IF val.t # "ref" THEN TPrim(val)
  ELSE LET c == h[val.v]
       IN IF c.k = "object"
            THEN TObj([x \in {y \in DOMAIN c.f : c.f[y] # Undefined} |->
                         JsonTree(h, c.f[x])])
          ELSE TArr([j \in 1..Len(c.e) |->
                       IF c.e[j] \in {Undefined, Hole} THEN TPrim(Null)
                       ELSE JsonTree(h, c.e[j])])

Parsed(b) == Ret(b.h, b.v)

\* the clone left out: the resolver reads the caller's own object
CloneShared(h, obj) == Ret(h, obj)

\* const sourceObj = JSON.parse(JSON.stringify(obj)): a copy that shares no cell with
\* obj; JSON.stringify(undefined) is undefined, which JSON.parse rejects
CloneJSON(h, obj) ==
  IF obj = Undefined THEN Throw(h, "SyntaxError")
  ELSE Parsed(Build(h, JsonTree(h, obj)))

(***************************************************************************)
(* Field specifications, resolveMap and resolveMapArray                    *)
(***************************************************************************)

\* a field specification: a map string, an array of field specifications, or
\* a value that is neither (a number)
FStr(s) == [k |-> "string", s |-> s, items |-> <<>>]

FArr(items) == [k |-> "array", s |-> <<>>, items |-> items]

FNum == [k |-> "number", s |-> <<>>, items |-> <<>>]

\* const toMapArray = (map) => (typeof map === "string" ? map.split(/::|,/) : map)
toMapArray(map) ==
  IF map.k = "string"
    THEN LET parts == SplitMulti(map.s, 1, 1)
         IN FArr([j \in 1..Len(parts) |-> FStr(parts[j])])
  ELSE map

\* the resolved pairs of a resolver call, or the error it throws
Pairs(h, ps) == [h |-> h, pairs |-> ps, err |-> "none"]

ThrowPairs(h, e) == [h |-> h, pairs |-> <<>>, err |-> e]

\* the pairs with their identifiers as they are
Unprefixed(identifierPrefix, ps) == ps

\* identifier: `${identifierPrefix}${identifier}` on every pair
Prefixed(identifierPrefix, ps) ==
  [j \in 1..Len(ps) |->
     [identifier |-> identifierPrefix \o ps[j].identifier, value |-> ps[j].value]]

\* const identifier = targetPath || sourcePath; return { identifier, value }
ResolvedMap(r, sourcePath, targetPath) ==
  IF r.err # "none" THEN ThrowPairs(r.h, r.err)
  ELSE Pairs(r.h, <<[identifier |-> IF targetPath # <<>> THEN targetPath ELSE sourcePath,
                     value |-> r.v]>>)

\* const [sourcePath, targetPath] = map.split(":"): undefined and "" are both
\* falsy in targetPath || sourcePath
ResolveParts(h, obj, parts) ==
  ResolvedMap(ReadValue(h, obj, parts[1]), parts[1],
              IF Len(parts) > 1 THEN parts[2] ELSE <<>>)

\* function resolveMap(obj, map)
resolveMap(h, obj, map) ==
  IF map.k # "string" THEN ThrowPairs(h, "Error")
  ELSE ResolveParts(h, obj, SplitColon(map.s, 1, 1))

RECURSIVE resolveMapArray(_, _, _)
RECURSIVE ResolveItems(_, _, _, _, _)

\* resolvedMaps.push(...) of one item's pairs, ahead of the later items' pairs
ResolvedCons(one, rest, identifierPrefix) ==
  IF rest.err # "none" THEN rest
  ELSE Pairs(rest.h, Prefixed(identifierPrefix, one.pairs) \o rest.pairs)

ResolveRest(one, sourceObj, working, i, identifierPrefix) ==
  IF one.err # "none" THEN one
  ELSE ResolvedCons(one, ResolveItems(one.h, sourceObj, working, i + 1, identifierPrefix),
                    identifierPrefix)

\* lines 381-410: the pairs of one mapItem, before the prefix
ResolveItem(h, sourceObj, mapItem) ==
  IF mapItem.k = "string"
    THEN IF IsMultiField(mapItem.s)
           THEN resolveMapArray(h, sourceObj, toMapArray(mapItem))
         ELSE resolveMap(h, sourceObj, mapItem)
  ELSE IF mapItem.k = "array" THEN resolveMapArray(h, sourceObj, mapItem)
  ELSE Pairs(h, <<>>)

\* workingMapArray.forEach((mapItem) => ...), from item i on
ResolveItems(h, sourceObj, working, i, identifierPrefix) ==
  IF i > Len(working) THEN Pairs(h, <<>>)
  ELSE ResolveRest(ResolveItem(h, sourceObj, working[i]), sourceObj, working, i,
                   identifierPrefix)

\* the items resolved whatever the mapper selected
ResolveFromAny(src, workingMapArray, identifierPrefix) ==
  IF src.err # "none" THEN ThrowPairs(src.h, src.err)
  ELSE ResolveItems(src.h, src.v, workingMapArray, 1, identifierPrefix)

\* lines 372-413, src being the source object the mapper selected
ResolveFrom(src, workingMapArray, identifierPrefix) ==
  IF src.err # "none" THEN ThrowPairs(src.h, src.err)
  ELSE IF isUndefined(src.v) \/ isNull(src.v) THEN Pairs(src.h, <<>>)
  ELSE ResolveItems(src.h, src.v, workingMapArray, 1, identifierPrefix)

\* const normalizedReadPath = readPath || (firstElement.endsWith(".") && writePath) || ""
normalizedReadPath(firstElement, readPath, writePath) ==
  IF readPath # <<>> THEN readPath
  ELSE IF firstElement[Len(firstElement)] = "." THEN writePath ELSE <<>>

\* lines 355-370: the first element is a mapper, split into parts
ResolveWithMapper(h, obj, items, parts) ==
  ResolveFrom(
    IF normalizedReadPath(items[1].s, parts[1], parts[2]) # <<>>
      THEN ReadValue(h, obj, normalizedReadPath(items[1].s, parts[1], parts[2]))
    ELSE Ret(h, obj),
    Tail(items),
    IF parts[2] # <<>> THEN parts[2] \o <<".">> ELSE <<>>)

\* function resolveMapArray(obj, mapArray)
resolveMapArray(h, obj, mapArray) ==
  IF mapArray.k # "array" THEN ThrowPairs(h, "Error")
  ELSE IF Len(mapArray.items) > 0 /\ mapArray.items[1].k = "string"
          /\ isMapper(mapArray.items[1].s)
    THEN ResolveWithMapper(h, obj, mapArray.items, SplitMapper(mapArray.items[1].s, 1, 1))
  ELSE ResolveFrom(Ret(h, obj), mapArray.items, <<>>)

(***************************************************************************)
(* mapObject                                                               *)
(***************************************************************************)

Entered(c, result) == [h |-> c.h, result |-> result, sourceObj |-> c.v, err |-> c.err]

\* lines 469-472: the result container and the deep clone of the source
\* (obj.toObject is the caller's own conversion and is not modelled)
MapObjectEnter(h, obj) ==
  Entered(CloneJSON(Append(h, IF IsArray(h, obj) THEN ArrCell(<<>>, NoProps)
                              ELSE ObjCell(NoProps)), obj),
          Ref(Len(h) + 1))

ResolveExpanded(h, sourceObj, expandedMap) ==
  IF expandedMap.k # "array" THEN Pairs(h, <<>>)
  ELSE resolveMapArray(h, sourceObj, expandedMap)

\* lines 478-484 of processMap: the resolved fields of one map specification
ResolveSpec(h, sourceObj, mapSpec) == ResolveExpanded(h, sourceObj, toMapArray(mapSpec))

\* result.newObj.push(...value): spreading reads a hole as undefined
Spread(e) == [j \in 1..Len(e) |-> IF e[j] = Hole THEN Undefined ELSE e[j]]

\* the merge left out
AssignNothing(h, a, b) == h

\* Object.assign(result.newObj, value)
ObjectAssign(h, a, b) ==
  [h EXCEPT ![a].f = [x \in (DOMAIN @) \cup (DOMAIN h[b].f) |->
                        IF x \in DOMAIN h[b].f THEN h[b].f[x] ELSE @[x]]]

Written(w, newObj) == IF w.err # "none" THEN w ELSE Ret(w.h, newObj)

\* lines 486-498: one resolved field applied to result.newObj; v is result.newObj after
ApplyField(h, newObj, pair) ==
  IF pair.identifier = <<"*">>
    THEN IF IsArray(h, newObj) /\ IsArray(h, pair.value)
           THEN Ret([h EXCEPT ![newObj.v].e = @ \o Spread(h[pair.value.v].e)], newObj)
         ELSE IF isObject(h, newObj) /\ isObject(h, pair.value)
           THEN Ret(ObjectAssign(h, newObj.v, pair.value.v), newObj)
         ELSE Ret(h, pair.value)
  ELSE Written(WriteValue(h, newObj, pair.identifier, pair.value), newObj)

RECURSIVE ApplyFields(_, _, _, _)

ApplyNext(r, ps, i) == IF r.err # "none" THEN r ELSE ApplyFields(r.h, r.v, ps, i + 1)

\* resolvedFields.forEach(...), from pair i on
ApplyFields(h, newObj, ps, i) ==
  IF i > Len(ps) THEN Ret(h, newObj)
  ELSE ApplyNext(ApplyField(h, newObj, ps[i]), ps, i)

RECURSIVE ProcessMaps(_, _, _, _, _)

ProcessNext(r, sourceObj, fs, i) ==
  IF r.err # "none" THEN r ELSE ProcessMaps(r.h, r.v, sourceObj, fs, i + 1)

ProcessResolved(rs, newObj, sourceObj, fs, i) ==
  IF rs.err # "none" THEN Throw(rs.h, rs.err)
  ELSE ProcessNext(ApplyFields(rs.h, newObj, rs.pairs, 1), sourceObj, fs, i)

\* fields.forEach((mapSpec) => { processMap(mapSpec); }), from field i on
ProcessMaps(h, newObj, sourceObj, fs, i) ==
  IF i > Len(fs) THEN Ret(h, newObj)
  ELSE ProcessResolved(ResolveSpec(h, sourceObj, fs[i]), newObj, sourceObj, fs, i)

MapEntered(en, fs) ==
  IF en.err # "none" THEN Throw(en.h, en.err)
  ELSE ProcessMaps(en.h, en.result, en.sourceObj, fs, 1)

\* function mapObject(obj, ...fields) as one call: the heap after, the value
\* returned and the error thrown
mapObject(h, obj, fs) == MapEntered(MapObjectEnter(h, obj), fs)

(***************************************************************************)
(* The inputs of the model                                                 *)
(***************************************************************************)

\* the longest array of a source
MaxArrLen == 2

\* one-key and two-key objects
Obj1(k1, t1) == TObj([x \in {k1} |-> t1])

Obj2(k1, t1, k2, t2) == TObj([x \in {k1, k2} |-> IF x = k1 THEN t1 ELSE t2])

\* the primitive values of a source: JSON has no undefined
Leaves == {TPrim(Num(1)), TPrim(Str(<<"X">>)), TPrim(Null)}

\* the elements of a source's arrays
Elements == {TPrim(Num(2)), Obj1(<<"b">>, TPrim(Num(1))), Obj1(<<"c">>, TPrim(Null))}

RECURSIVE SeqsUpTo(_, _)
\* the sequences over S of length at most n
SeqsUpTo(S, n) ==
  IF n = 0 THEN {<<>>}
  ELSE LET shorter == SeqsUpTo(S, n - 1)
       IN shorter \cup {Append(q, x) : q \in {r \in shorter : Len(r) = n - 1}, x \in S}

Arrays == {TArr(e) : e \in SeqsUpTo(Elements, MaxArrLen)}

\* what a source holds under its key a
Inner == Leaves \cup Arrays \cup
         {TObj(NoProps), Obj1(<<"b">>, TPrim(Num(1))), Obj1(<<"b">>, TPrim(Null)),
          Obj2(<<"b">>, TPrim(Str(<<"X">>)), <<"c">>, TPrim(Num(2)))}

\* the sources a caller passes to mapObject: JSON-compatible values
Sources ==
  {TObj(NoProps), TPrim(Num(1)), TPrim(Null)}
  \cup {Obj1(<<"a">>, i) : i \in Inner}
  \cup {Obj2(<<"a">>, i, <<"b">>, TPrim(Num(2))) : i \in Inner}
  \cup {Obj1(<<"a">>, Obj1(<<"b">>, Obj1(<<"c">>, TPrim(Num(1)))))}
  \cup Arrays

\* the map strings of the model
MapStrings ==
  { <<"a">>, <<"b">>, <<"c">>,
    <<"a", ":", "t">>, <<"b", ":", "t">>, <<"a", ":">>,
    <<"a", ".", "b">>, <<"a", ".", "b", ":", "t">>, <<"a", ".", "b", ":">>,
    <<"a", ":", "t", ".", "b">>, <<"b", ":", "t", ".", "c">>,
    <<"a", ",", "b">>, <<"a", ":", ":", "b">>, <<"a", ":", "t", ",", "b">>,
    <<"*">>, <<"a", ":", "*">>,
    <<":", "t", ".">>, <<":", "t">>, <<"a", ".">>, <<"a", ":", "t", ".">>,
    <<":", "t", ":", ":", "a", ",", "b">>, <<"a", ".", ":", ":", "b", ":", "t">>,
    <<":", "t", ".", ":", ":", "a", ",", "b">>,
    <<"a", ".", "[", "b", "]", ":", "t">>, <<"a", ".", "[", "c", "]", ":", "t">>,
    <<"a", ".", "[", "c", "]">>, <<"b", ":", "a">>,
    <<"a", ".", "0">>, <<"a", ".", "-", "1", ":", "t">>,
    <<"a", ".", "-", "1", ".", "b", ":", "t">>, <<"a", ".", "1", ".", "b", ":", "t">>,
    <<"0", ":", "t">>, <<"-", "1">>, <<"[", "b", "]">>, <<"a", ":", "0">>,
    <<"a", ":", "t", ".", "[", "]">>, <<>> }

\* a group of the mapper a:t. with a simple map, a nested group and the empty
\* map string, which readValue rejects
GroupWithEmptyMap ==
  FArr(<<FStr(<<"a", ":", "t", ".">>), FStr(<<"b">>), FArr(<<FStr(<<"b", ":", "y">>)>>),
         FStr(<<>>)>>)

\* the field specifications of the model: map strings, groups, and a number
FieldSpecs ==
  {FStr(m) : m \in MapStrings}
  \cup { GroupWithEmptyMap,
         FArr(<<FStr(<<":", "x">>), FStr(<<"a", ":", "y", ".", ":", ":", "b", ",", "c">>)>>),
         FArr(<<FStr(<<"a", ":", "t", ".">>), FArr(<<FStr(<<"b", ":", "y", ".">>), FStr(<<"c">>)>>)>>),
         FArr(<<FStr(<<":", "t">>), FArr(<<FStr(<<":", "y">>), FStr(<<"b">>)>>)>>),
         FArr(<<FStr(<<":", "t">>),
                FArr(<<FStr(<<":", "y">>), FArr(<<FStr(<<":", "z">>), FStr(<<"b">>)>>)>>)>>),
          FArr(<<FStr(<<":", "t", ".">>), FStr(<<"a">>)>>),
         FArr(<<FStr(<<":", "t">>), FStr(<<"a">>), FStr(<<"b">>)>>),
         FArr(<<FStr(<<"a", ":", "t", ".">>), FStr(<<"b">>)>>),
         FArr(<<FStr(<<"a", ".">>), FStr(<<"b">>), FStr(<<"c", ":", "x">>)>>),
         FArr(<<FStr(<<":", "x">>), FArr(<<FStr(<<"a", ":", "y", ".">>), FStr(<<"b">>)>>)>>),
         FArr(<<FStr(<<"a">>), FNum>>),
         FNum }

\* the field specifications that calls with two arguments combine
PairSpecs ==
  {FStr(m) : m \in
     { <<"a">>, <<"b">>, <<"a", ":", "t">>, <<"b", ":", "t">>, <<"a", ".", "b">>,
       <<"a", ":", "t", ".", "b">>, <<"b", ":", "t", ".", "c">>, <<"a", ",", "b">>,
       <<"*">>, <<"a", ":", "*">>, <<":", "t", ".">>, <<":", "t">>, <<"a", ".">>,
       <<"a", ":", "t", ".">>, <<"a", ":", "t", ".", "[", "]">>, <<"b", ":", "a">> }}

\* two maps x:tgt, y:tgt with one target, as two arguments and as one group
SameTarget(x, y, tgt) ==
  { <<FStr(x \o <<":">> \o tgt), FStr(y \o <<":">> \o tgt)>>,
    <<FStr(x \o <<":">> \o tgt \o <<",">> \o y \o <<":">> \o tgt)>> }

SameTargetLists ==
  UNION {SameTarget(xy[1], xy[2], tgt) :
           xy \in {<<<<"a">>, <<"b">>>>, <<<<"b">>, <<"a">>>>},
           tgt \in {<<"t">>, <<"t", ".", "0">>}}

\* the argument lists of the model's calls: one or two field specifications, and
\* some of three
FieldLists ==
  {<<f>> : f \in FieldSpecs} \cup {<<f, g>> : f \in PairSpecs, g \in PairSpecs}
  \cup { <<FStr(<<":", "t", ".">>), FStr(<<"a">>), FStr(<<"b">>)>>,
         <<FStr(<<"a", ".">>), FStr(<<"b", ":", "t">>), FStr(<<"c">>)>>,
         <<FStr(<<"a", ":", "t", ".">>), FStr(<<"b">>), FStr(<<"c">>)>>,
         <<FStr(<<"*">>), FStr(<<"a", ":", "t">>), FStr(<<"b">>)>>,
         <<FStr(<<"b">>), FStr(<<"a">>), FStr(<<"c">>)>>,
         <<FStr(<<"b">>), GroupWithEmptyMap>>,
         <<FStr(<<"a", ":", "t">>), FStr(<<"a", ":", "y">>), FStr(<<"b", ":", "t", ".", "c">>)>>,
         <<FStr(<<"b">>), FStr(<<"a", ".", ":", ":", "b", ":", "t">>)>>,
         <<FStr(<<"a", ":", "t">>), FStr(<<"b", ":", "t", ".", "c">>),
           FStr(<<"a", ":", "y">>)>> }
  \cup SameTargetLists

\* what the caller writes into the returned result afterwards
CallerWrites == {<<"t", ".", "z">>, <<"a", ".", "z">>, <<"0", ".", "z">>}

(***************************************************************************)
(* One call of mapObject, step by step                                     *)
(***************************************************************************)

VARIABLES
  heap,        \* the objects and arrays
  pc,          \* where the call is: "call", "fields", "pairs", "done", "thrown", "after"
  source,      \* the caller's obj
  sourceTree,  \* what obj held when the call was made
  fields,      \* the caller's field specifications
  fi,          \* the index of the field specification processMap is at
  pairs,       \* the resolved fields of that specification not yet applied
  newObj,      \* result.newObj
  sourceObj,   \* the clone the resolver reads
  err,         \* the error the call threw, "none" if none
  path,        \* the path of the caller's own writeValue or readValue call
  value,       \* the value of the caller's own writeValue call
  got          \* what the caller's own readValue call returned

vars == <<heap, pc, source, sourceTree, fields, fi, pairs, newObj, sourceObj, err,
          path, value, got>>

InitWith(b, src, fs) ==
  /\ heap = b.h
  /\ source = b.v
  /\ sourceTree = src
  /\ fields = fs
  /\ pc = "call"
  /\ fi = 1
  /\ pairs = <<>>
  /\ newObj = Undefined
  /\ sourceObj = Undefined
  /\ err = "none"
  /\ path = <<>>
  /\ value = Undefined
  /\ got = Undefined

\* the caller holds a source and is about to call mapObject(source, ...fields)
Init == \E src \in Sources, fs \in FieldLists : InitWith(Build(<<>>, src), src, fs)

EnterWith(en) ==
  /\ heap' = en.h
  /\ newObj' = en.result
  /\ sourceObj' = en.sourceObj
  /\ err' = en.err
  /\ pc' = IF en.err # "none" THEN "thrown" ELSE "fields"

\* mapObject is entered: the result container is made and the source cloned
Enter ==
  /\ pc = "call"
  /\ EnterWith(MapObjectEnter(heap, source))
  /\ UNCHANGED <<source, sourceTree, fields, fi, pairs, path, value, got>>

ProcessMapWith(rs) ==
  /\ heap' = rs.h
  /\ err' = rs.err
  /\ pairs' = rs.pairs
  /\ pc' = IF rs.err # "none" THEN "thrown"
           ELSE IF rs.pairs = <<>> THEN "fields" ELSE "pairs"
  /\ fi' = IF rs.err = "none" /\ rs.pairs = <<>> THEN fi + 1 ELSE fi

\* processMap(mapSpec) resolves the fields of the next specification
ProcessMap ==
  /\ pc = "fields"
  /\ fi <= Len(fields)
  /\ ProcessMapWith(ResolveSpec(heap, sourceObj, fields[fi]))
  /\ UNCHANGED <<source, sourceTree, fields, newObj, sourceObj, path, value, got>>

ApplyPairWith(r) ==
  /\ heap' = r.h
  /\ err' = r.err
  /\ newObj' = IF r.err # "none" THEN newObj ELSE r.v
  /\ pairs' = Tail(pairs)
  /\ pc' = IF r.err # "none" THEN "thrown"
           ELSE IF Tail(pairs) = <<>> THEN "fields" ELSE "pairs"
  /\ fi' = IF r.err = "none" /\ Tail(pairs) = <<>> THEN fi + 1 ELSE fi

\* one iteration of resolvedFields.forEach: the next resolved field is applied
ApplyPair ==
  /\ pc = "pairs"
  /\ ApplyPairWith(ApplyField(heap, newObj, Head(pairs)))
  /\ UNCHANGED <<source, sourceTree, fields, sourceObj, path, value, got>>

\* return result.newObj
Return ==
  /\ pc = "fields"
  /\ fi > Len(fields)
  /\ pc' = "done"
  /\ UNCHANGED <<heap, source, sourceTree, fields, fi, pairs, newObj, sourceObj, err,
                 path, value, got>>

CallerWriteWith(w, p) ==
  /\ heap' = w.h
  /\ err' = w.err
  /\ path' = p
  /\ value' = Num(7)

\* the caller changes the returned result in place: writeValue(result, p, 7)
CallerWrite ==
  /\ pc = "done"
  /\ \E p \in CallerWrites : CallerWriteWith(WriteValue(heap, newObj, p, Num(7)), p)
  /\ pc' = "after"
  /\ UNCHANGED <<source, sourceTree, fields, fi, pairs, newObj, sourceObj, got>>

Next == Enter \/ ProcessMap \/ ApplyPair \/ Return \/ CallerWrite

Spec == Init /\ [][Next]_vars

(***************************************************************************)
(* Calls of the exported writeValue and readValue                          *)
(***************************************************************************)

RECURSIVE NatString(_)
\* String(n) for n >= 0
NatString(n) ==
  IF n < 10 THEN <<Digits[n + 1]>> ELSE Append(NatString(n \div 10), Digits[(n % 10) + 1])

\* String(n)
String(n) == IF n < 0 THEN <<"-">> \o NatString(0 - n) ELSE NatString(n)

\* roots that are no objects, and arrays of empty objects, of objects that hold
\* an object under b, of null, of an array
OtherRoots ==
  { TPrim(Undefined), TPrim(Null), TPrim(Num(1)), TPrim(Str(<<"X">>)),
    TArr(<<TObj(NoProps), TObj(NoProps)>>),
    TArr(<<Obj1(<<"b">>, Obj1(<<"z">>, TPrim(Num(1)))), TObj(NoProps)>>),
    TArr(<<TPrim(Null), TObj(NoProps)>>),
    TArr(<<TArr(<<TPrim(Num(2))>>)>>),
    Obj1(<<"a">>, TPrim(Num(1))),
    Obj2(<<"a">>, Obj1(<<"z">>, TPrim(Num(1))), <<"z">>, TPrim(Num(2))),
    Obj2(<<"a">>, Obj2(<<"b">>, Obj1(<<"z">>, TPrim(Num(1))), <<"z">>, TPrim(Num(2))),
         <<"k">>, TPrim(Num(3))),
    Obj2(<<"a">>, Obj2(<<"b">>, TPrim(Num(1)), <<"z">>, TPrim(Num(2))),
         <<"b">>, Obj1(<<"c">>, TPrim(Num(3)))) }

\* the roots a caller passes: {}, arrays, objects holding an array under a, others
RWObjects ==
  {TObj(NoProps)} \cup Arrays \cup {Obj1(<<"a">>, arr) : arr \in Arrays} \cup OtherRoots

\* the paths of index segments: an index alone, after a key, before a key
IndexPaths ==
  {pre \o String(i) \o suf :
     pre \in {<<>>, <<"a", ".">>}, suf \in {<<>>, <<".", "b">>},
     i \in (0 - MaxArrLen)..MaxArrLen}

\* the paths of plain keys
KeyPaths == {<<"a">>, <<"a", ".", "b">>, <<"a", ".", "b", ".", "c">>}

\* the paths of a key on the root, of brackets and of the wildcard
OtherPaths ==
  { <<"b">>, <<"b", ".", "c">>, <<"[", "b", "]">>, <<"a", ".", "[", "b", "]">>,
    <<"[", "]">>, <<"a", ".", "[", "]">>, <<"*">>, <<"a", ".", "*", ".", "b">>,
    <<"a", ".", ".", "b">> }

RWPaths ==
  IndexPaths \cup KeyPaths \cup OtherPaths
  \cup {<<"a", ".", "0", ".", "1">>, <<"a", ".", "0", "1">>}

\* the values a caller writes: undefined and JSON-compatible ones
RWValues ==
  { TPrim(Undefined), TPrim(Null), TPrim(True), TPrim(Num(1)), TPrim(Str(<<"X">>)),
    TArr(<<>>), TArr(<<TPrim(Num(2))>>), TObj(NoProps), Obj1(<<"b">>, TPrim(Num(1))) }

InitRWWith(b, tree, p, vb) ==
  /\ heap = vb.h
  /\ source = b.v
  /\ sourceTree = tree
  /\ path = p
  /\ value = vb.v
  /\ got = Undefined
  /\ pc = "start"
  /\ err = "none"
  /\ fields = <<>>
  /\ fi = 1
  /\ pairs = <<>>
  /\ newObj = Undefined
  /\ sourceObj = Undefined

InitRWBuilt(b, tree, p, v) == InitRWWith(b, tree, p, Build(b.h, v))

\* the caller holds an object, a path and a value
InitRW ==
  \E tree \in RWObjects, p \in RWPaths, v \in RWValues :
    InitRWBuilt(Build(<<>>, tree), tree, p, v)

WriteCallWith(w) ==
  /\ heap' = w.h
  /\ err' = w.err
  /\ pc' = IF w.err # "none" THEN "thrown" ELSE "written"

\* writeValue(source, path, value)
WriteCall ==
  /\ pc = "start"
  /\ WriteCallWith(WriteValue(heap, source, path, value))
  /\ UNCHANGED <<source, sourceTree, fields, fi, pairs, newObj, sourceObj, path, value, got>>

ReadCallWith(r) ==
  /\ heap' = r.h
  /\ err' = r.err
  /\ got' = r.v
  /\ pc' = IF r.err # "none" THEN "readThrown"
           ELSE IF pc = "start" THEN "read" ELSE "readback"

\* readValue(source, path), of the object as it is or after the write
ReadCall ==
  /\ pc \in {"start", "written"}
  /\ ReadCallWith(ReadValue(heap, source, path))
  /\ UNCHANGED <<source, sourceTree, fields, fi, pairs, newObj, sourceObj, path, value>>

NextRW == WriteCall \/ ReadCall

SpecRW == InitRW /\ [][NextRW]_vars

(***************************************************************************)
(* Repeated appends: writeValue(obj, 'a.[]', v), again and again           *)
(***************************************************************************)

\* how many elements the appends of one run may add
MaxAppends == 2

AppendPath == <<"a", ".", "[", "]">>

\* the objects appended to: a absent, or a an array
AppendObjects == {TObj(NoProps)} \cup {Obj1(<<"a">>, arr) : arr \in Arrays}

\* the values appended: undefined, null, a number, a string, a new object
AppendValues ==
  { TPrim(Undefined), TPrim(Null), TPrim(Num(1)), TPrim(Str(<<"X">>)),
    Obj1(<<"b">>, TPrim(Num(1))) }

\* the elements of the array under key a of obj in heap h, none when a holds no array
ElementsUnderA(h, obj) ==
  IF <<"a">> \in DOMAIN h[obj.v].f /\ IsArray(h, h[obj.v].f[<<"a">>])
    THEN h[h[obj.v].f[<<"a">>].v].e
  ELSE <<>>

InitAppendWith(b, tree) ==
  /\ heap = b.h
  /\ source = b.v
  /\ sourceTree = tree
  /\ path = AppendPath
  /\ value = Undefined
  /\ got = Undefined
  /\ pc = "start"
  /\ err = "none"
  /\ fields = <<>>
  /\ fi = 1
  /\ pairs = <<>>
  /\ newObj = Undefined
  /\ sourceObj = Undefined

\* the caller holds an object
InitAppend == \E tree \in AppendObjects : InitAppendWith(Build(<<>>, tree), tree)

AppendWritten(w, v) ==
  /\ heap' = w.h
  /\ err' = w.err
  /\ value' = v
  /\ pc' = IF w.err # "none" THEN "thrown" ELSE "appended"

AppendBuilt(vb) == AppendWritten(WriteValue(vb.h, source, AppendPath, vb.v), vb.v)

\* writeValue(source, 'a.[]', v) for some v
AppendCall ==
  /\ pc \in {"start", "appended"}
  /\ Len(ElementsUnderA(heap, source)) < MaxArrLen + MaxAppends
  /\ \E v \in AppendValues : AppendBuilt(Build(heap, v))
  /\ UNCHANGED <<source, sourceTree, fields, fi, pairs, newObj, sourceObj, path, got>>

NextAppend == AppendCall

SpecAppend == InitAppend /\ [][NextAppend]_vars

(***************************************************************************)
(* Calls of writeValue and readValue with a path argument of any type      *)
(***************************************************************************)

\* a path that is no string taken for no path: undefined returned, nothing thrown
readLenient(h, obj, pathArg) ==
  IF pathArg.t # "string" THEN Ret(h, Undefined) ELSE ReadValue(h, obj, pathArg.s)

\* function readValue(obj, path), path being any value: lines 105-107, then the rest
readValue(h, obj, pathArg) ==
  IF pathArg.t # "string" THEN Throw(h, "Error") ELSE ReadValue(h, obj, pathArg.s)

\* function writeValue(obj, path, value), path being any value: lines 180-182,
\* then the rest
writeValue(h, obj, pathArg, val) ==
  IF pathArg.t # "string" THEN Throw(h, "Error") ELSE WriteValue(h, obj, pathArg.s, val)

\* the path arguments: values that are no strings, the empty string, paths
PathArgs ==
  { Undefined, Null, Num(0), True, Str(<<>>), Str(<<"a">>), Str(<<"a", ".", "0">>),
    Str(<<"a", ".", "b">>) }

\* the values written through them
ArgValues == {Undefined, Null, Num(1)}

InitArgsWith(b, tree, p, v) ==
  /\ heap = b.h
  /\ source = b.v
  /\ sourceTree = tree
  /\ path = p
  /\ value = v
  /\ got = Undefined
  /\ pc = "start"
  /\ err = "none"
  /\ fields = <<>>
  /\ fi = 1
  /\ pairs = <<>>
  /\ newObj = Undefined
  /\ sourceObj = Undefined

\* the caller holds an object, a path argument and a value
InitArgs ==
  \E tree \in RWObjects, p \in PathArgs, v \in ArgValues :
    InitArgsWith(Build(<<>>, tree), tree, p, v)

ReadArgWith(r) ==
  /\ heap' = r.h
  /\ err' = r.err
  /\ got' = r.v
  /\ pc' = IF r.err # "none" THEN "readThrown" ELSE "read"

\* readValue(source, path)
ReadArg ==
  /\ pc = "start"
  /\ ReadArgWith(readValue(heap, source, path))
  /\ UNCHANGED <<source, sourceTree, fields, fi, pairs, newObj, sourceObj, path, value>>

WriteArgWith(w) ==
  /\ heap' = w.h
  /\ err' = w.err
  /\ pc' = IF w.err # "none" THEN "writeThrown" ELSE "written"

\* writeValue(source, path, value)
WriteArg ==
  /\ pc = "start"
  /\ WriteArgWith(writeValue(heap, source, path, value))
  /\ UNCHANGED <<source, sourceTree, fields, fi, pairs, newObj, sourceObj, path, value, got>>

NextArgs == ReadArg \/ WriteArg

SpecArgs == InitArgs /\ [][NextArgs]_vars

(***************************************************************************)
(* The properties                                                          *)
(***************************************************************************)

\* the result mapObject returned, as a tree
ResultTree == Tree(heap, newObj)

\* the caller's source is a plain object with key k
SourceHas(k) == sourceTree.t = "object" /\ k \in DOMAIN sourceTree.f

\* the caller's source is a plain object whose values are primitives
FlatSource ==
  /\ sourceTree.t = "object"
  /\ \A k \in DOMAIN sourceTree.f : sourceTree.f[k].t \notin {"object", "array"}

\* the source's key a holds a plain object with key k
InnerHas(k) ==
  /\ SourceHas(<<"a">>)
  /\ sourceTree.f[<<"a">>].t = "object"
  /\ k \in DOMAIN sourceTree.f[<<"a">>].f

InnerAt(k) == sourceTree.f[<<"a">>].f[k]

\* C1: mapObject never mutates the caller's source: while the call runs, after
\* it returned or threw, and after the caller changed the returned result in
\* place, the source deep-equals what it was before the call.
C1_SourceNeverMutated == Tree(heap, source) = sourceTree

\* C1's case: the source's object under a was mapped to t, and the caller then
\* wrote z into the result's t
C1_CallerChangedResult ==
  /\ pc = "after"
  /\ err = "none"
  /\ path = <<"t", ".", "z">>
  /\ InnerHas(<<"b">>)
  /\ ResultTree.t = "object"
  /\ <<"t">> \in DOMAIN ResultTree.f
  /\ ResultTree.f[<<"t">>].t = "object"
  /\ DOMAIN ResultTree.f[<<"t">>].f = {<<"b">>, <<"z">>}

\* C2: a dotted source path without a target stores the value under the last
\* segment only: mapObject({a:{b:v}}, 'a.b') is {b:v}.
C2_LastSegmentOnly ==
  (pc = "done" /\ fields = <<FStr(<<"a", ".", "b">>)>> /\ InnerHas(<<"b">>))
    => ResultTree = Obj1(<<"b">>, InnerAt(<<"b">>))

\* C3: a write-prefix mapper ':t.' passed as its own argument applies to the
\* simple-map arguments after it: each is read from the source itself and
\* written under t.
C3_WritePrefixApplies ==
  ( /\ pc = "done"
    /\ FlatSource
    /\ Len(fields) >= 2
    /\ fields[1] = FStr(<<":", "t", ".">>)
    /\ \A i \in 2..Len(fields) :
         fields[i] \in {FStr(<<"a">>), FStr(<<"b">>)} /\ SourceHas(fields[i].s) )
    => ResultTree =
         Obj1(<<"t">>, TObj([k \in {fields[i].s : i \in 2..Len(fields)} |-> sourceTree.f[k]]))

\* C4: a read mapper passed as its own argument redirects the reads of the
\* simple-map arguments after it: mapObject({a:{b:v}}, 'a:t.', 'b') is {t:{b:v}},
\* and mapObject({a:{b:v, c:w}}, 'a.', 'b:t', 'c') is {t:v, c:w}.
C4_ReadMapperRedirects ==
  /\ (pc = "done" /\ InnerHas(<<"b">>)
      /\ fields = <<FStr(<<"a", ":", "t", ".">>), FStr(<<"b">>)>>)
       => ResultTree = Obj1(<<"t">>, Obj1(<<"b">>, InnerAt(<<"b">>)))
  /\ (pc = "done" /\ InnerHas(<<"b">>) /\ InnerHas(<<"c">>)
      /\ fields = <<FStr(<<"a", ".">>), FStr(<<"b", ":", "t">>), FStr(<<"c">>)>>)
       => ResultTree = Obj2(<<"t">>, InnerAt(<<"b">>), <<"c">>, InnerAt(<<"c">>))

\* the paths of plain keys and non-negative indices, an index first included
RoundTripPaths ==
  KeyPaths \cup {<<"a", ".", "0", ".", "1">>}
  \cup {pre \o String(i) \o suf :
          pre \in {<<>>, <<"a", ".">>}, suf \in {<<>>, <<".", "b">>}, i \in 0..MaxArrLen}

\* C5: read/write round trip: for a path of plain keys and non-negative indices
\* and a JSON-compatible value v, writeValue({}, path, v) does not throw and
\* readValue of the written object at path deep-equals v.
C5_RoundTrip ==
  (sourceTree = TObj(NoProps) /\ path \in RoundTripPaths /\ value # Undefined)
    => /\ pc \notin {"thrown", "readThrown"}
       /\ pc = "readback" => Tree(heap, got) = Tree(heap, value)

\* C6: rename: for a flat source, 'k:t' with k a key of the source puts
\* source[k] under t, without a key k unless k is mapped separately; keys no
\* field specification names are absent from the result.
C6_Rename ==
  /\ (pc = "done" /\ FlatSource /\ SourceHas(<<"a">>)
      /\ fields = <<FStr(<<"a", ":", "t">>)>>)
       => ResultTree = Obj1(<<"t">>, sourceTree.f[<<"a">>])
  /\ (pc = "done" /\ FlatSource /\ SourceHas(<<"b">>)
      /\ fields = <<FStr(<<"b", ":", "t">>)>>)
       => ResultTree = Obj1(<<"t">>, sourceTree.f[<<"b">>])
  /\ (pc = "done" /\ FlatSource /\ SourceHas(<<"a">>) /\ SourceHas(<<"b">>)
      /\ fields = <<FStr(<<"a", ":", "t">>), FStr(<<"b">>)>>)
       => ResultTree = Obj2(<<"t">>, sourceTree.f[<<"a">>], <<"b">>, sourceTree.f[<<"b">>])

\* the result of mapObject(source, ...fs) called in the current state, as a tree
MappedTree(fs) == Tree(mapObject(heap, source, fs).h, mapObject(heap, source, fs).v)

\* the flat source restricted to the keys of ks it has
Picked(ks) == TObj([k \in ks \cap DOMAIN sourceTree.f |-> sourceTree.f[k]])

\* C7: multi-field group: 'a,b' and 'a::b' give what the separate arguments
\* 'a', 'b' give, which for a flat source is exactly the named keys the source
\* has, with the source's values.
C7_GroupAsSeparate ==
  ( /\ pc = "done"
    /\ FlatSource
    /\ fields \in {<<FStr(<<"a", ",", "b">>)>>, <<FStr(<<"a", ":", ":", "b">>)>>} )
    => /\ ResultTree = MappedTree(<<FStr(<<"a">>), FStr(<<"b">>)>>)
       /\ ResultTree = Picked({<<"a">>, <<"b">>})

\* the element that reading sub from the array element el gives
Extracted(el, sub) ==
  IF el.t = "object" /\ sub \in DOMAIN el.f THEN el.f[sub] ELSE TPrim(Undefined)

\* C8: array extraction: for a source whose key a holds an array of n elements,
\* 'a.[sub]:t' stores at t an array of n elements, the i-th being what reading
\* sub from a[i] gives when a[i] is a plain object and undefined otherwise.
C8_ArrayExtraction ==
  \A sub \in {<<"b">>, <<"c">>} :
    ( /\ pc = "done"
      /\ SourceHas(<<"a">>)
      /\ sourceTree.f[<<"a">>].t = "array"
      /\ fields = <<FStr(<<"a", ".", "[">> \o sub \o <<"]", ":", "t">>)>> )
      => ResultTree =
           Obj1(<<"t">>, TArr([i \in 1..Len(sourceTree.f[<<"a">>].e) |->
                                 Extracted(sourceTree.f[<<"a">>].e[i], sub)]))

\* C8's case: b was extracted from an array of a number and an object
C8_ExtractedTwo ==
  /\ pc = "done"
  /\ fields = <<FStr(<<"a", ".", "[", "b", "]", ":", "t">>)>>
  /\ SourceHas(<<"a">>)
  /\ sourceTree.f[<<"a">>] = TArr(<<TPrim(Num(2)), Obj1(<<"b">>, TPrim(Num(1)))>>)
  /\ ResultTree = Obj1(<<"t">>, TArr(<<TPrim(Undefined), TPrim(Num(1))>>))

\* the renames k:t that follow a wildcard in the model's calls
AfterWildcard == {<<<<"a">>, <<"t">>>>, <<<<"b">>, <<"t">>>>, <<<<"b">>, <<"a">>>>}

ReadArray(pre) ==
  IF pre = <<>> THEN sourceTree
  ELSE IF SourceHas(<<"a">>) THEN sourceTree.f[<<"a">>] ELSE TPrim(Undefined)

ReadArrayLen(pre) == IF ReadArray(pre).t = "array" THEN Len(ReadArray(pre).e) ELSE 0

\* C10: negative-index equivalence on reads: for an array of length n and
\* 0 <= k < n, reading index String(-1-k) gives what reading String(n-1-k)
\* gives, the element n-1-k, also after a key path and before a further key.
C10_NegativeIndexRead ==
  \A pre \in {<<>>, <<"a", ".">>}, suf \in {<<>>, <<".", "b">>}, k \in 0..(MaxArrLen - 1) :
    (pc = "read" /\ k < ReadArrayLen(pre) /\ path = pre \o String(-1 - k) \o suf)
      => /\ got = ReadValue(heap, source,
                            pre \o String(ReadArrayLen(pre) - 1 - k) \o suf).v
         /\ suf = <<>> => Tree(heap, got) = ReadArray(pre).e[ReadArrayLen(pre) - k]

\* C10's case: a.-1.b read b of the last element, the first element having none
C10_ReadLast ==
  /\ pc = "read"
  /\ path = <<"a", ".", "-", "1", ".", "b">>
  /\ sourceTree = Obj1(<<"a">>, TArr(<<TPrim(Num(2)), Obj1(<<"b">>, TPrim(Num(1)))>>))
  /\ got = Num(1)

\* the step grew the array under a by one element and kept the elements it had
GrewByOne ==
  /\ Len(ElementsUnderA(heap', source)) = Len(ElementsUnderA(heap, source)) + 1
  /\ \A i \in 1..Len(ElementsUnderA(heap, source)) :
       Tree(heap', ElementsUnderA(heap', source)[i])
         = Tree(heap, ElementsUnderA(heap, source)[i])

\* C11: append: each call writeValue(obj, 'a.[]', v), whatever v, grows obj.a
\* by exactly one element (from none when a is absent) and leaves the elements
\* it had unchanged and in place.
C11_AppendGrowsByOne == [][GrewByOne]_vars

\* C11 as amended: the same for every call but the one that writes undefined
\* to an object without a, which leaves the object as it is.
C11_AppendOfDefinedGrowsByOne ==
  [][(value' # Undefined \/ <<"a">> \in DOMAIN heap[source.v].f) => GrewByOne]_vars

\* C11's case: two appends to {} made a an array of two elements
C11_AppendedTwice ==
  /\ pc = "appended"
  /\ sourceTree = TObj(NoProps)
  /\ Tree(heap, source) = Obj1(<<"a">>, TArr(<<TPrim(Num(1)), TPrim(Str(<<"X">>))>>))

\* C12: path validation: readValue throws when the path is no string or is
\* empty, writeValue throws when the path is no string, and the root is then
\* as it was.
C12_PathValidation ==
  /\ (path.t # "string" \/ path = Str(<<>>)) => pc # "read"
  /\ path.t # "string" => pc # "written"
  /\ (pc = "readThrown" /\ (path.t # "string" \/ path = Str(<<>>)))
       => err = "Error" /\ Tree(heap, source) = sourceTree
  /\ (pc = "writeThrown" /\ path.t # "string")
       => err = "Error" /\ Tree(heap, source) = sourceTree

\* C12's case: a read with a number for a path threw
C12_ReadThrew ==
  /\ pc = "readThrown"
  /\ path = Num(0)
  /\ err = "Error"
  /\ sourceTree = Obj1(<<"a">>, TArr(<<TPrim(Num(2))>>))

\* C13: write ordering: when two pairs of one call carry the same identifier,
\* a key path or an index path, the result holds the later pair's value there,
\* whatever the two values are.
C13_LaterWriteWins ==
  \A xy \in {<<<<"a">>, <<"b">>>>, <<<<"b">>, <<"a">>>>},
     tgt \in {<<"t">>, <<"t", ".", "0">>} :
    (pc = "done" /\ SourceHas(xy[1]) /\ SourceHas(xy[2])
     /\ fields \in SameTarget(xy[1], xy[2], tgt))
      => Tree(heap, ReadValue(heap, newObj, tgt).v) = sourceTree.f[xy[2]]

\* the tree of what the resolved pair p carries
PairTree(p) == Tree(heap, p.value)

\* C14: read-before-write: throughout one call the clone that the resolver
\* reads stays deep-equal to the caller's source, so a pair resolved from the
\* key k carries the source's value at k, whatever was written before.
C14_CloneStaysEqual ==
  /\ pc \in {"fields", "pairs", "done"} => Tree(heap, sourceObj) = sourceTree
  /\ \A k \in {<<"a">>, <<"b">>} :
       (pc = "pairs" /\ SourceHas(k) /\ fields[fi] = FStr(k \o <<":", "y">>))
         => PairTree(Head(pairs)) = sourceTree.f[k]

\* C15: empty target: for 'a.b:' the resolved identifier is the last segment
\* b of the source path, and mapObject writes the value read under b.
C15_EmptyTarget ==
  /\ (pc = "pairs" /\ fields[fi] = FStr(<<"a", ".", "b", ":">>))
       => Head(pairs).identifier = <<"b">>
  /\ (pc = "done" /\ InnerHas(<<"b">>) /\ fields = <<FStr(<<"a", ".", "b", ":">>)>>)
       => ResultTree = Obj1(<<"b">>, InnerAt(<<"b">>))

\* C16: graceful degradation of writes: writeValue with a well-formed string
\* path and a defined value never throws, whatever the root holds.
C16_WriteNeverThrows == value # Undefined => pc # "thrown"

\* the groups that a write-only mapper :t or :t. opens, with the keys they name
WriteOnlyGroups ==
  { [spec |-> FArr(<<FStr(<<":", "t", ".">>), FStr(<<"a">>)>>), keys |-> {<<"a">>}],
    [spec |-> FArr(<<FStr(<<":", "t">>), FStr(<<"a">>), FStr(<<"b">>)>>),
     keys |-> {<<"a">>, <<"b">>}],
    [spec |-> FStr(<<":", "t", ".", ":", ":", "a", ",", "b">>), keys |-> {<<"a">>, <<"b">>}],
    [spec |-> FStr(<<":", "t", ":", ":", "a", ",", "b">>), keys |-> {<<"a">>, <<"b">>}] }

\* C18: write-only mapper inside a group: after a first item :t or :t. the
\* other items are read from the group's own source and written under t, so a
\* flat source that has the named keys gives {t: those keys with their values}.
C18_WriteOnlyMapperGroup ==
  \A g \in WriteOnlyGroups :
    (pc = "done" /\ FlatSource /\ fields = <<g.spec>> /\ g.keys \subseteq DOMAIN sourceTree.f)
      => ResultTree = Obj1(<<"t">>, Picked(g.keys))

\* what reading the first j segments of the path from the root gives
PrefixRead(j) ==
  ReadSegmentsOf(heap, source, SubSeq(ReadSegments(path), 1, j)).v

\* C17: absent-branch reads: readValue with a non-empty string path never
\* throws, whatever the root, and once the traversal has reached undefined the
\* result is undefined.
C17_AbsentBranchReads ==
  /\ pc # "readThrown"
  /\ pc = "read"
       => \A j \in 1..Len(ReadSegments(path)) :
            PrefixRead(j) = Undefined => got = Undefined

\* C17's case: a.b.c was read from {}, where already a is missing
C17_ReadThroughMissing ==
  /\ pc = "read"
  /\ sourceTree = TObj(NoProps)
  /\ path = <<"a", ".", "b", ".", "c">>
  /\ got = Undefined

\* the index i addresses an element of an array of n elements
InRange(i, n) == IF i >= 0 THEN i < n ELSE 0 - i <= n

\* C19: last-segment index overwrite: when the last segment is an index that
\* addresses an existing element, writeValue replaces the element by the
\* value, whatever the element is.
C19_IndexOverwrites ==
  \A pre \in {<<>>, <<"a", ".">>}, i \in (0 - MaxArrLen)..(MaxArrLen - 1) :
    (pc = "written" /\ InRange(i, ReadArrayLen(pre)) /\ path = pre \o String(i))
      => Tree(heap, ReadValue(heap, source, path).v) = Tree(heap, value)

\* the root is an array of plain objects, one at least
ArrayOfObjects ==
  /\ sourceTree.t = "array"
  /\ Len(sourceTree.e) > 0
  /\ \A i \in 1..Len(sourceTree.e) : sourceTree.e[i].t = "object"

\* the keys that element i of the root had under its object at b
KeysAtB(i) ==
  IF <<"b">> \in DOMAIN sourceTree.e[i].f /\ sourceTree.e[i].f[<<"b">>].t = "object"
    THEN DOMAIN sourceTree.e[i].f[<<"b">>].f
  ELSE {}

\* element i of the root array
RootElement(i) == heap[source.v].e[i]

\* C20: key broadcast: writing b.c to an array of objects writes b.c into every
\* element, so that b.c reads as the value in each, and keeps the keys that
\* an element's object at b had.
C20_KeyBroadcast ==
  (pc = "written" /\ ArrayOfObjects /\ path = <<"b", ".", "c">>)
    => \A i \in 1..Len(sourceTree.e) :
         /\ Tree(heap, ReadValue(heap, RootElement(i), path).v) = Tree(heap, value)
         /\ \A k \in KeysAtB(i) \ {<<"c">>} :
              Tree(heap, ReadValue(heap, RootElement(i), <<"b", ".">> \o k).v)
                = sourceTree.e[i].f[<<"b">>].f[k]

\* a path with an empty segment between two dots: 'a..b'
EmptySegmentPath == <<"a", ".", ".", "b">>

\* C21: empty segments are rejected: with the path 'a..b' readValue and
\* writeValue both throw an invalid-path error and read or write nothing.
C21_EmptySegmentRejected ==
  (path = EmptySegmentPath /\ pc # "start")
    => /\ pc \in {"thrown", "readThrown"}
       /\ err = "Error"
       /\ Tree(heap, source) = sourceTree

\* simple maps that read the key c, or c.k
AbsentMaps ==
  { <<"c">>, <<"c", ":", "t">>, <<"c", ":", "t", ".", "b">>, <<"c", ".", "k", ":", "t">>,
    <<"c", ":", "t", ".", "0">>, <<"c", ":", "t", ".", "[", "]">> }

\* the caller's writeValue(source, path, undefined) where the path reads undefined
WritesUndefinedToAbsent ==
  /\ pc = "start"
  /\ pc' \in {"written", "thrown"}
  /\ value = Undefined
  /\ ReadValue(heap, source, path).v = Undefined

\* C22: no-op write of undefined: when the value is undefined and the path
\* reads undefined, writeValue returns without any mutation of the root (no
\* key added, no container created or replaced); hence mapObject with one
\* simple map whose source path is absent returns an object without keys.
C22_UndefinedWriteIsNoOp ==
  [][/\ WritesUndefinedToAbsent => (heap' = heap /\ pc' = "written")
     /\ (pc = "start" /\ sourceTree.t = "object" /\ <<"c">> \notin DOMAIN sourceTree.f)
          => \A m \in AbsentMaps : MappedTree(<<FStr(m)>>) = TObj(NoProps)]_vars

\* C22's case: a.b.c was written with undefined into {}, which is as it was
C22_SkippedDeepWrite ==
  /\ pc = "written"
  /\ value = Undefined
  /\ path = <<"a", ".", "b", ".", "c">>
  /\ sourceTree = TObj(NoProps)
  /\ Tree(heap, source) = TObj(NoProps)

\* groups whose mapper reads the key a
GroupsReadingA ==
  { GroupWithEmptyMap,
    FArr(<<FStr(<<"a", ":", "t", ".">>), FStr(<<"b">>)>>),
    FArr(<<FStr(<<"a", ".">>), FStr(<<"b">>), FStr(<<"c", ":", "x">>)>>),
    FStr(<<"a", ".", ":", ":", "b", ":", "t">>) }

\* processMap is about to resolve a group whose mapper reads a, and a is
\* undefined or null in the group's source
AbsentMapperGroupNext ==
  /\ pc = "fields"
  /\ fi <= Len(fields)
  /\ fields[fi] \in GroupsReadingA
  /\ ReadValue(heap, sourceObj, <<"a">>).v \in {Undefined, Null}

\* C23: mapper to an absent path: when the read path of a group's mapper gives
\* undefined or null the group yields no pairs, whatever its other items are
\* (nested groups, a map that would throw), and the result is left as it was.
C23_AbsentMapperYieldsNothing ==
  [][AbsentMapperGroupNext
       => /\ pc' = "fields"
          /\ fi' = fi + 1
          /\ pairs' = <<>>
          /\ err' = "none"
          /\ newObj' = newObj
          /\ Tree(heap', newObj) = Tree(heap, newObj)]_vars

\* C23's case: after 'b', the group of a:t. found a null under a and the call
\* returned {b: 2}
C23_NullMapperSkipped ==
  /\ pc = "done"
  /\ fields = <<FStr(<<"b">>), GroupWithEmptyMap>>
  /\ sourceTree = Obj2(<<"a">>, TPrim(Null), <<"b">>, TPrim(Num(2)))
  /\ ResultTree = Obj1(<<"b">>, TPrim(Num(2)))

\* readValue(v, p) in the current heap
ReadIn(v, p) == ReadValue(heap, v, p).v

\* v is neither undefined nor null
Present(v) == v \notin {Undefined, Null}

\* processMap is about to resolve the one field specification g
ResolvesNext(g) == pc = "fields" /\ fi <= Len(fields) /\ fields[fi] = g

Pair(identifier, v) == [identifier |-> identifier, value |-> v]

\* C24: prefix composition: the identifiers a group emits are its write prefix
\* followed by the identifiers produced inside it, over every nesting depth and
\* for nested arrays and nested multi-field strings alike, and the read path
\* of an inner mapper is resolved against the source the outer mapper selected.
C24_PrefixComposition ==
  [][/\ (/\ ResolvesNext(FArr(<<FStr(<<":", "x">>),
                               FArr(<<FStr(<<"a", ":", "y", ".">>), FStr(<<"b">>)>>)>>))
         /\ Present(ReadIn(sourceObj, <<"a">>)))
        => /\ err' = "none"
           /\ pairs' = <<Pair(<<"x", ".", "y", ".", "b">>,
                              ReadIn(ReadIn(sourceObj, <<"a">>), <<"b">>))>>
     /\ (/\ ResolvesNext(FArr(<<FStr(<<":", "x">>),
                               FStr(<<"a", ":", "y", ".", ":", ":", "b", ",", "c">>)>>))
         /\ Present(ReadIn(sourceObj, <<"a">>)))
        => /\ err' = "none"
           /\ pairs' = <<Pair(<<"x", ".", "y", ".", "b">>,
                              ReadIn(ReadIn(sourceObj, <<"a">>), <<"b">>)),
                         Pair(<<"x", ".", "y", ".", "c">>,
                              ReadIn(ReadIn(sourceObj, <<"a">>), <<"c">>))>>
     /\ (/\ ResolvesNext(FArr(<<FStr(<<"a", ":", "t", ".">>),
                               FArr(<<FStr(<<"b", ":", "y", ".">>), FStr(<<"c">>)>>)>>))
         /\ Present(ReadIn(sourceObj, <<"a">>))
         /\ Present(ReadIn(ReadIn(sourceObj, <<"a">>), <<"b">>)))
        => /\ err' = "none"
           /\ pairs' = <<Pair(<<"t", ".", "y", ".", "c">>,
                              ReadIn(ReadIn(ReadIn(sourceObj, <<"a">>), <<"b">>), <<"c">>))>>
     /\ (/\ ResolvesNext(FArr(<<FStr(<<":", "t">>),
                               FArr(<<FStr(<<":", "y">>), FStr(<<"b">>)>>)>>))
         /\ Present(sourceObj))
        => /\ err' = "none"
           /\ pairs' = <<Pair(<<"t", ".", "y", ".", "b">>, ReadIn(sourceObj, <<"b">>))>>
     /\ (/\ ResolvesNext(FArr(<<FStr(<<":", "t">>),
                               FArr(<<FStr(<<":", "y">>),
                                      FArr(<<FStr(<<":", "z">>), FStr(<<"b">>)>>)>>)>>))
         /\ Present(sourceObj))
        => /\ err' = "none"
           /\ pairs' = <<Pair(<<"t", ".", "y", ".", "z", ".", "b">>,
                              ReadIn(sourceObj, <<"b">>))>>]_vars

\* C24's case: ['a:t.', ['b:y.', 'c']] mapped {a:{b:{c:1}}} to {t:{y:{c:1}}}
C24_NestedMappersComposed ==
  /\ pc = "done"
  /\ fields = <<FArr(<<FStr(<<"a", ":", "t", ".">>),
                       FArr(<<FStr(<<"b", ":", "y", ".">>), FStr(<<"c">>)>>)>>)>>
  /\ sourceTree = Obj1(<<"a">>, Obj1(<<"b">>, Obj1(<<"c">>, TPrim(Num(1)))))
  /\ ResultTree = Obj1(<<"t">>, Obj1(<<"y">>, Obj1(<<"c">>, TPrim(Num(1)))))

\* the paths of plain keys, as their keys
KeysOfPath ==
  [p \in {<<"a">>, <<"b">>, <<"a", ".", "b">>, <<"b", ".", "c">>, <<"a", ".", "b", ".", "c">>}
     |-> IF Len(p) = 1 THEN <<p>>
         ELSE IF Len(p) = 3 THEN <<<<p[1]>>, <<p[3]>>>>
         ELSE <<<<p[1]>>, <<p[3]>>, <<p[5]>>>>]

RECURSIVE PlainIntermediates(_, _)
\* tree is a plain object, and so is every slot that the keys but the last find
PlainIntermediates(tree, keys) ==
  /\ tree.t = "object"
  /\ (Len(keys) > 1 /\ Head(keys) \in DOMAIN tree.f)
       => PlainIntermediates(tree.f[Head(keys)], Tail(keys))

RECURSIVE SetAt(_, _, _)
\* the tree with v at the slot of the keys and everything else as it is; slots
\* missing on the way are new objects
SetAt(tree, keys, v) ==
  IF keys = <<>> THEN v
  ELSE TObj([x \in (DOMAIN tree.f) \cup {Head(keys)} |->
              IF x # Head(keys) THEN tree.f[x]
              ELSE SetAt(IF x \in DOMAIN tree.f THEN tree.f[x] ELSE TObj(NoProps),
                         Tail(keys), v)])

\* the object that the first j keys find is the same object after the step
SameObjectAt(keys, j) ==
  LET before == ReadSegmentsOf(heap, source, SubSeq(keys, 1, j)).v
  IN  isObject(heap, before) => ReadSegmentsOf(heap', source, SubSeq(keys, 1, j)).v = before

\* writeValue(source, path, value) is called with a path of plain keys and a
\* value that is not undefined, on a root whose slots on the way are plain objects
WritesThroughObjects ==
  /\ pc = "start"
  /\ pc' \in {"written", "thrown"}
  /\ path \in DOMAIN KeysOfPath
  /\ value # Undefined
  /\ PlainIntermediates(sourceTree, KeysOfPath[path])

\* C25: sibling preservation: a write along plain keys through plain objects
\* changes only the final slot, to the value; every other key at every level
\* keeps its value and the objects on the way stay the objects they were.
C25_SiblingsPreserved ==
  [][WritesThroughObjects
       => /\ pc' = "written"
          /\ Tree(heap', source) = SetAt(sourceTree, KeysOfPath[path], Tree(heap, value))
          /\ \A j \in 1..(Len(KeysOfPath[path]) - 1) : SameObjectAt(KeysOfPath[path], j)]_vars

\* what the result holds at the identifier q in heap h, as a tree
ResultAt(h, q) == Tree(h, ReadValue(h, newObj, q).v)

\* the next pair is written into the result object at t.c
WritesAtTC ==
  /\ pc = "pairs"
  /\ isObject(heap, newObj)
  /\ Head(pairs).identifier = <<"t", ".", "c">>

\* C26: independence of result locations: a pair written at t.c changes the
\* result only there: what the result holds at y, a and b, identifiers that
\* neither begin t.c nor continue it, is what it was, also when y and t
\* received the same sub-object of the source; so after 'a:t', 'a:y', 'b:t.c'
\* the value at y deep-equals source.a.
C26_LocationsIndependent ==
  [][/\ WritesAtTC
          => \A q \in {<<"y">>, <<"a">>, <<"b">>} : ResultAt(heap', q) = ResultAt(heap, q)
     /\ (/\ pc' = "done"
         /\ fields = <<FStr(<<"a", ":", "t">>), FStr(<<"a", ":", "y">>),
                       FStr(<<"b", ":", "t", ".", "c">>)>>
         /\ SourceHas(<<"a">>) /\ sourceTree.f[<<"a">>].t # "null")
          => ResultAt(heap', <<"y">>) = sourceTree.f[<<"a">>]]_vars

\* the array a write goes through, as it is now: the root, or what its key a holds
ArrayNow(pre) ==
  IF pre = <<>> THEN Tree(heap, source)
  ELSE Tree(heap, ReadValue(heap, source, <<"a">>).v)

\* C27: negative-index writes stay in place: a write through the index -k on an
\* array of n elements leaves the array's length as it is and changes no element
\* but the one at n-k; with k > n no element of the array is changed.
C27_NegativeWriteInPlace ==
  \A pre \in {<<>>, <<"a", ".">>}, suf \in {<<>>, <<".", "b">>}, k \in 1..MaxArrLen :
    (/\ pc \in {"written", "thrown"}
     /\ ReadArray(pre).t = "array"
     /\ path = pre \o String(0 - k) \o suf)
      => /\ ArrayNow(pre).t = "array"
         /\ Len(ArrayNow(pre).e) = ReadArrayLen(pre)
         /\ \A i \in 1..ReadArrayLen(pre) :
              i # ReadArrayLen(pre) - k + 1 => ArrayNow(pre).e[i] = ReadArray(pre).e[i]

====
